---- MODULE Spec2Model ----
(***************************************************************************)
(* State-machine model of the exam session and scoring code of app.py:    *)
(* the Flask session of each user (a key/value dictionary), the question  *)
(* catalog, the table of persisted Score rows, and the request handlers   *)
(* start_test, test_question_page, results, reset_test and logout.        *)
(***************************************************************************)
EXTENDS Integers, Sequences, FiniteSets, TLC

(* ------------------------------ bounds -------------------------------- *)

\* Largest number of questions of a catalog the model enumerates.
MaxQuestions == 2

\* Largest number of Score rows the table holds before commits fail.
MaxScores == 2

\* Largest value of the clock, in minutes.
MaxNow == 31

\* The scoring runs enumerate every catalog of up to MaxSection questions in
\* each section.
MaxSection == 5

(* ------------------------- program constants -------------------------- *)

TEST_DURATION_MINUTES == 30

\* The five test-related keys of the Flask session.
SessionKeys ==
    {"current_question_index", "answers", "start_time",
     "test_questions_ids_ordered", "marked_for_review"}

Users == {"u1", "u2"}

(* ----------------------------- dictionaries --------------------------- *)

\* A Python dict is a function whose domain is the set of keys present.
EmptyDict == [k \in {} |-> TRUE]

\* d[k] = v
DictSet(d, k, v) == [x \in (DOMAIN d) \cup {k} |-> IF x = k THEN v ELSE d[x]]

\* d.pop(k, None)
DictPop(d, k) == [x \in (DOMAIN d) \ {k} |-> d[x]]

\* for key in keys: d.pop(key, None)
DictPopAll(d, keys) == [x \in (DOMAIN d) \ keys |-> d[x]]

(* ------------------------------- catalog ------------------------------ *)

\* A question id is <<prefix, n>>: "m3" is <<"m", 3>>, "rw7" is <<"rw", 7>>.
\* q_id.startswith('m')
StartsWithM(q_id) == q_id[1] = "m"

\* q_id.startswith('rw')
StartsWithRw(q_id) == q_id[1] = "rw"

\* The strings a client can send as an answer; of the options of a question
\* the model keeps two, of which one is the correct answer.
Options == {"A", "B"}

\* One question record of QUESTIONS_DATA (the fields the handlers read).
Question(prefix, n) ==
    [id |-> <<prefix, n>>,
     module |-> 1,
     correctAnswer |-> IF n % 2 = 1 THEN "A" ELSE "B"]

\* QUESTIONS_DATA with nm math questions and nr reading_writing questions.
QuestionsData(nm, nr) ==
    [math |-> [i \in 1..nm |-> Question("m", i)],
     reading_writing |-> [j \in 1..nr |-> Question("rw", j)]]

\* The catalogs the model enumerates: one of each length up to MaxQuestions,
\* the empty one included, its questions split between the two sections.
Catalogs == {QuestionsData(n - (n \div 2), n \div 2) : n \in 0..MaxQuestions}

VARIABLES
    QUESTIONS_DATA,   \* the loaded question data of the process
    store,            \* store[u]: the Flask session dictionary of user u
    scores,           \* the rows of the Score table, in commit order
    now,              \* the clock, in minutes
    req,              \* req[u]: the request of user u in flight or just answered
    resp,             \* resp[u]: the response to it, once it is handled
    before,           \* before[u]: the session as the handler of req[u] read it
    scores_before,    \* scores_before[u]: the rows as that handler read them
    saved             \* saved[u]: the rows committed for u since the last
                      \* start of u that succeeded

vars == <<QUESTIONS_DATA, store, scores, now, req, resp, before,
          scores_before, saved>>

\* ALL_QUESTIONS = QUESTIONS_DATA["math"] + QUESTIONS_DATA["reading_writing"]
ALL_QUESTIONS == QUESTIONS_DATA.math \o QUESTIONS_DATA.reading_writing

\* ORDERED_QUESTION_IDS = [q['id'] for q in ALL_QUESTIONS]
ORDERED_QUESTION_IDS == [i \in 1..Len(ALL_QUESTIONS) |-> ALL_QUESTIONS[i].id]

\* TOTAL_QUESTIONS = len(ALL_QUESTIONS)
TOTAL_QUESTIONS == Len(ALL_QUESTIONS)

\* The keys of ALL_QUESTIONS_MAP.
CatalogIds == {ALL_QUESTIONS[i].id : i \in 1..Len(ALL_QUESTIONS)}

\* ALL_QUESTIONS_MAP = {q['id']: q for q in ALL_QUESTIONS}: of two questions
\* with one id the later one stays.
ALL_QUESTIONS_MAP ==
    LET qs == ALL_QUESTIONS
    IN [q_id \in {qs[i].id : i \in 1..Len(qs)} |->
           LET last == CHOOSE i \in 1..Len(qs) :
                           /\ qs[i].id = q_id
                           /\ \A j \in (i + 1)..Len(qs) : qs[j].id # q_id
           IN qs[last]]

(* ------------------------------- scoring ------------------------------ *)

\* The pairs (correct, total), total <= 50, for which the float product
\* (correct / total) * 600 falls just below the exact quotient, so that int()
\* truncates it to one less than floor(600 * correct / total).
FloatShort == {<<11, 15>>, <<11, 30>>, <<22, 30>>, <<33, 45>>, <<41, 50>>}

\* IntRatio600() with a factor of 700.
IntRatio700(correct, total) ==
    LET t == IF total > 1 THEN total ELSE 1
    IN (700 * correct) \div t

\* int((correct / max(1, total)) * 600), for 0 <= correct and total <= 50.
IntRatio600(correct, total) ==
    LET t == IF total > 1 THEN total ELSE 1
    IN ((600 * correct) \div t) - (IF <<correct, t>> \in FloatShort THEN 1 ELSE 0)

\* RatioBelow60() with <= in place of <.
RatioAtMost60(correct, total) == 5 * correct <= 3 * total

\* RatioBelow60() that takes a section without a correct answer as no data.
RatioBelow60Positive(correct, total) ==
    0 < correct /\ 5 * correct < 3 * total

\* (correct / total) < 0.6 in floats, which for total < 200 is 5c < 3t.
RatioBelow60(correct, total) == 5 * correct < 3 * total

Max(a, b) == IF a >= b THEN a ELSE b

Min(a, b) == IF a <= b THEN a ELSE b

\* sum(1 for q_id in ORDERED_QUESTION_IDS if q_id.startswith('m'))
math_total_qs_in_test ==
    Cardinality({i \in 1..Len(ORDERED_QUESTION_IDS) :
                    StartsWithM(ORDERED_QUESTION_IDS[i])})

\* rw_total_qs_in_test, were it to count the ids that start with 'r_w'.
rw_total_qs_in_test_r_w ==
    Cardinality({i \in 1..Len(ORDERED_QUESTION_IDS) :
                    ORDERED_QUESTION_IDS[i][1] = "r_w"})

\* sum(1 for q_id in ORDERED_QUESTION_IDS if q_id.startswith('rw'))
rw_total_qs_in_test ==
    Cardinality({i \in 1..Len(ORDERED_QUESTION_IDS) :
                    StartsWithRw(ORDERED_QUESTION_IDS[i])})

\* The keys of answers the loop counts as correct: the key has a catalog
\* entry and the answer equals its correctAnswer.
CorrectIds(answers) ==
    {q_id \in DOMAIN answers :
        /\ q_id \in DOMAIN ALL_QUESTIONS_MAP
        /\ answers[q_id] = ALL_QUESTIONS_MAP[q_id].correctAnswer}

\* RawSectionScore() without the base of 200.
RawSectionScoreNoBase(correct, total) ==
    IF total > 0 THEN IntRatio600(correct, total) ELSE 200

\* 200 + int((correct / max(1, total)) * 600) if total > 0 else 200
RawSectionScore(correct, total) ==
    IF total > 0 THEN 200 + IntRatio600(correct, total) ELSE 200

\* The weaknesses and recommendations lists.
Diagnostics(math_correct, rw_correct) ==
    IF TOTAL_QUESTIONS > 0
    THEN LET m == math_total_qs_in_test > 0
                  /\ RatioBelow60(math_correct, math_total_qs_in_test)
             r == rw_total_qs_in_test > 0
                  /\ RatioBelow60(rw_correct, rw_total_qs_in_test)
             w == (IF m THEN <<"Math Concepts">> ELSE <<>>)
                  \o (IF r THEN <<"R&W Skills">> ELSE <<>>)
             c == (IF m THEN <<"Review math topics.">> ELSE <<>>)
                  \o (IF r THEN <<"Focus on R&W techniques.">> ELSE <<>>)
         IN IF w = <<>>
            THEN [weaknesses |-> <<"Good performance!">>,
                  recommendations |-> <<"Keep practicing.">>]
            ELSE [weaknesses |-> w, recommendations |-> c]
    ELSE [weaknesses |-> <<"No questions processed.">>,
          recommendations |-> <<"Check test configuration.">>]

\* total_answered, were it to count only the keys the catalog has.
total_answered_known(answers) ==
    Cardinality(DOMAIN answers \cap DOMAIN ALL_QUESTIONS_MAP)

\* "total_answered": len(answers)
total_answered(answers) == Cardinality(DOMAIN answers)

\* calculate_mock_score() whose dict has 'total_score' and 'math_score'
\* exchanged.
calculate_mock_score_exchanged(answers) ==
    LET correct == CorrectIds(answers)
        correct_count == Cardinality(correct)
        math_correct == Cardinality({q_id \in correct : StartsWithM(q_id)})
        rw_correct == Cardinality({q_id \in correct : ~StartsWithM(q_id)})
        raw_math == RawSectionScore(math_correct, math_total_qs_in_test)
        raw_rw == RawSectionScore(rw_correct, rw_total_qs_in_test)
        raw_total == raw_math + raw_rw
        diag == Diagnostics(math_correct, rw_correct)
    IN [total_score |-> Max(200, Min(800, raw_math)),
        math_score |-> Max(400, Min(1600, raw_total)),
        rw_score |-> Max(200, Min(800, raw_rw)),
        correct_count |-> correct_count,
        total_answered |-> total_answered(answers),
        total_test_questions |-> TOTAL_QUESTIONS,
        weaknesses |-> diag.weaknesses,
        recommendations |-> diag.recommendations]

calculate_mock_score(answers) ==
    LET correct == CorrectIds(answers)
        correct_count == Cardinality(correct)
        math_correct == Cardinality({q_id \in correct : StartsWithM(q_id)})
        rw_correct == Cardinality({q_id \in correct : ~StartsWithM(q_id)})
        raw_math == RawSectionScore(math_correct, math_total_qs_in_test)
        raw_rw == RawSectionScore(rw_correct, rw_total_qs_in_test)
        raw_total == raw_math + raw_rw
        diag == Diagnostics(math_correct, rw_correct)
    IN [total_score |-> Max(400, Min(1600, raw_total)),
        math_score |-> Max(200, Min(800, raw_math)),
        rw_score |-> Max(200, Min(800, raw_rw)),
        correct_count |-> correct_count,
        total_answered |-> total_answered(answers),
        total_test_questions |-> TOTAL_QUESTIONS,
        weaknesses |-> diag.weaknesses,
        recommendations |-> diag.recommendations]

(* ------------------------------ responses ----------------------------- *)

\* Python's None where a response or a request carries no value.
None == "None"

\* redirect(url_for(endpoint)) after flash(message): flash names the flashed
\* message, "" when nothing is flashed.
Redirect(endpoint, flash) ==
    [kind |-> "redirect", endpoint |-> endpoint, flash |-> flash]

\* redirect(url_for('test_question_page', q_idx=q_idx)) after flash(message).
RedirectToQuestion(q_idx, flash) ==
    [kind |-> "redirect", endpoint |-> "test_question_page", q_idx |-> q_idx,
     flash |-> flash]

\* No response yet: no request in flight, or the request is not handled yet.
NoResponse == [kind |-> "none"]

\* No request in flight.
NoRequest == [op |-> "none"]

(* -------------------------- session handlers -------------------------- *)

\* initialize_test_session() numbering the first question 1.
initialize_test_session_from1(s, t) ==
    LET popped == DictPopAll(s, SessionKeys)
        s1 == DictSet(popped, "current_question_index", 1)
        s2 == DictSet(s1, "answers", EmptyDict)
        s3 == DictSet(s2, "start_time", t)
    IN IF ORDERED_QUESTION_IDS = <<>>
       THEN [session |-> s3, raised |-> TRUE]
       ELSE [session |->
                DictSet(DictSet(s3, "test_questions_ids_ordered",
                                ORDERED_QUESTION_IDS),
                        "marked_for_review", EmptyDict),
             raised |-> FALSE]

\* initialize_test_session() that merges into the stored session: the old keys
\* are not popped, and answers and marked_for_review are set only when absent.
initialize_test_session_merge(s, t) ==
    LET s1 == DictSet(s, "current_question_index", 0)
        s2 == IF "answers" \in DOMAIN s1 THEN s1
              ELSE DictSet(s1, "answers", EmptyDict)
        s3 == DictSet(s2, "start_time", t)
    IN IF ORDERED_QUESTION_IDS = <<>>
       THEN [session |-> s3, raised |-> TRUE]
       ELSE LET s4 == DictSet(s3, "test_questions_ids_ordered",
                              ORDERED_QUESTION_IDS)
            IN [session |->
                    IF "marked_for_review" \in DOMAIN s4 THEN s4
                    ELSE DictSet(s4, "marked_for_review", EmptyDict),
                raised |-> FALSE]

\* initialize_test_session() without the check of ORDERED_QUESTION_IDS.
initialize_test_session_nocheck(s, t) ==
    LET popped == DictPopAll(s, SessionKeys)
        s1 == DictSet(popped, "current_question_index", 0)
        s2 == DictSet(s1, "answers", EmptyDict)
        s3 == DictSet(s2, "start_time", t)
    IN [session |->
            DictSet(DictSet(s3, "test_questions_ids_ordered",
                            ORDERED_QUESTION_IDS),
                    "marked_for_review", EmptyDict),
        raised |-> FALSE]

\* initialize_test_session(): the session it leaves and whether it raised
\* ValueError. The three keys set before the check of ORDERED_QUESTION_IDS stay
\* set when it raises.
initialize_test_session(s, t) ==
    LET popped == DictPopAll(s, SessionKeys)
        s1 == DictSet(popped, "current_question_index", 0)
        s2 == DictSet(s1, "answers", EmptyDict)
        s3 == DictSet(s2, "start_time", t)
    IN IF ORDERED_QUESTION_IDS = <<>>
       THEN [session |-> s3, raised |-> TRUE]
       ELSE [session |->
                DictSet(DictSet(s3, "test_questions_ids_ordered",
                                ORDERED_QUESTION_IDS),
                        "marked_for_review", EmptyDict),
             raised |-> FALSE]

\* start_test(): the ValueError is caught, flashed and answered with a
\* redirect to the index page; the session is saved as the call left it.
start_test(s, t) ==
    LET r == initialize_test_session(s, t)
    IN IF r.raised
       THEN [session |-> r.session,
             resp |-> Redirect("index", "Cannot start test")]
       ELSE [session |-> r.session,
             resp |-> RedirectToQuestion(0, "")]

\* The session check, were it to turn away a session whose test duration is
\* over.
session_valid_in_time(s) ==
    /\ SessionKeys \subseteq DOMAIN s
    /\ s["test_questions_ids_ordered"] # <<>>
    /\ now - s["start_time"] <= TEST_DURATION_MINUTES

\* The session check at the head of test_question_page: every required key
\* is present and the stored id list is not empty.
session_valid(s) ==
    /\ SessionKeys \subseteq DOMAIN s
    /\ s["test_questions_ids_ordered"] # <<>>

\* An out-of-bounds request always redirected to the first question.
valid_q_idx_first(s) == 0

\* The index an out-of-bounds request is redirected to (0-based).
valid_q_idx(s) ==
    LET stored == IF "current_question_index" \in DOMAIN s
                  THEN s["current_question_index"] ELSE 0
    IN IF 0 <= stored /\ stored < Len(s["test_questions_ids_ordered"])
       THEN stored ELSE 0

\* request.form.get(k) is truthy: the field is present and not empty.
FormHas(form, k) == k \in DOMAIN form /\ form[k] # ""

\* A POST of the answer already recorded takes the answer back.
UpdateAnswersToggle(answers, question_id, form) ==
    IF FormHas(form, "answer")
    THEN IF question_id \in DOMAIN answers /\ answers[question_id] = form["answer"]
         THEN DictPop(answers, question_id)
         ELSE DictSet(answers, question_id, form["answer"])
    ELSE answers

\* A POST without an answer value removes the recorded answer.
UpdateAnswersUnset(answers, question_id, form) ==
    IF FormHas(form, "answer")
    THEN DictSet(answers, question_id, form["answer"])
    ELSE DictPop(answers, question_id)

\* UpdateAnswers() that assigns a new dict holding only the submitted answer.
UpdateAnswersReplace(answers, question_id, form) ==
    IF FormHas(form, "answer")
    THEN DictSet(EmptyDict, question_id, form["answer"])
    ELSE answers

\* The answers dict after a POST of form for question_id.
UpdateAnswers(answers, question_id, form) ==
    IF FormHas(form, "answer")
    THEN DictSet(answers, question_id, form["answer"])
    ELSE answers

\* The mark is set whenever the mark_review field is sent, whatever its value.
UpdateMarkedAnyValue(marked, question_id, form) ==
    IF "mark_review" \in DOMAIN form
    THEN DictSet(marked, question_id, TRUE)
    ELSE DictPop(marked, question_id)

\* The marked_for_review dict after a POST of form for question_id.
UpdateMarked(marked, question_id, form) ==
    IF "mark_review" \in DOMAIN form /\ form["mark_review"] = "true"
    THEN DictSet(marked, question_id, TRUE)
    ELSE DictPop(marked, question_id)

\* 'back' without the check q_idx > 0.
NavigateBackUnguarded(q_idx, len, form) ==
    LET action == IF "action" \in DOMAIN form THEN form["action"] ELSE None
    IN IF action = "next"
       THEN IF q_idx + 1 < len
            THEN RedirectToQuestion(q_idx + 1, "")
            ELSE Redirect("results", "")
       ELSE IF action = "back"
            THEN RedirectToQuestion(q_idx - 1, "")
            ELSE RedirectToQuestion(q_idx, "")

\* Navigate() whose 'next' bound is q_idx + 1 <= len.
NavigateNextOffByOne(q_idx, len, form) ==
    LET action == IF "action" \in DOMAIN form THEN form["action"] ELSE None
    IN IF action = "next"
       THEN IF q_idx + 1 <= len
            THEN RedirectToQuestion(q_idx + 1, "")
            ELSE Redirect("results", "")
       ELSE IF action = "back" /\ q_idx > 0
            THEN RedirectToQuestion(q_idx - 1, "")
            ELSE RedirectToQuestion(q_idx, "")

\* The redirect that ends a POST: by the form's action field.
Navigate(q_idx, len, form) ==
    LET action == IF "action" \in DOMAIN form THEN form["action"] ELSE None
    IN IF action = "next"
       THEN IF q_idx + 1 < len
            THEN RedirectToQuestion(q_idx + 1, "")
            ELSE Redirect("results", "")
       ELSE IF action = "back" /\ q_idx > 0
            THEN RedirectToQuestion(q_idx - 1, "")
            ELSE RedirectToQuestion(q_idx, "")

\* The page of a GET with the 0-based index as the question number.
RenderQuestionZeroBased(s, q_idx, question_id, question) ==
    [kind |-> "render",
     template |-> "test_page.html",
     question |-> question,
     question_number |-> q_idx,
     total_questions |-> TOTAL_QUESTIONS,
     section |-> IF StartsWithM(question_id) THEN "Math" ELSE "Reading & Writing",
     start_time_iso |-> s["start_time"],
     test_duration_minutes |-> TEST_DURATION_MINUTES,
     is_marked_for_review |->
        IF question_id \in DOMAIN s["marked_for_review"]
        THEN s["marked_for_review"][question_id] ELSE FALSE,
     selected_answer |->
        IF question_id \in DOMAIN s["answers"]
        THEN s["answers"][question_id] ELSE None,
     q_idx |-> q_idx]

\* render_template('test_page.html', ...) of a GET.
RenderQuestion(s, q_idx, question_id, question) ==
    [kind |-> "render",
     template |-> "test_page.html",
     question |-> question,
     question_number |-> q_idx + 1,
     total_questions |-> TOTAL_QUESTIONS,
     section |-> IF StartsWithM(question_id) THEN "Math" ELSE "Reading & Writing",
     start_time_iso |-> s["start_time"],
     test_duration_minutes |-> TEST_DURATION_MINUTES,
     is_marked_for_review |->
        IF question_id \in DOMAIN s["marked_for_review"]
        THEN s["marked_for_review"][question_id] ELSE FALSE,
     selected_answer |->
        IF question_id \in DOMAIN s["answers"]
        THEN s["answers"][question_id] ELSE None,
     q_idx |-> q_idx]

\* test_question_page(q_idx) for a request of the given method and form: the
\* session it leaves and its response. q_idx is 0-based; the stored id list
\* is a sequence, so its element q_idx is at position q_idx + 1.
test_question_page(s, q_idx, method, form) ==
    IF ~session_valid(s)
    THEN [session |-> s, resp |-> Redirect("index", "session invalid")]
    ELSE
    LET ordered_ids == s["test_questions_ids_ordered"]
    IN IF ~(0 <= q_idx /\ q_idx < Len(ordered_ids))
       THEN [session |-> s,
             resp |-> RedirectToQuestion(valid_q_idx(s),
                               "Invalid question number")]
       ELSE
       LET s1 == DictSet(s, "current_question_index", q_idx)
           question_id == ordered_ids[q_idx + 1]
       IN IF question_id \notin DOMAIN ALL_QUESTIONS_MAP
          THEN [session |-> s1,
                resp |-> Redirect("index", "Question data could not be loaded")]
          ELSE IF method = "POST"
          THEN LET s2 == DictSet(s1, "answers",
                             UpdateAnswers(s1["answers"], question_id, form))
                   s3 == DictSet(s2, "marked_for_review",
                             UpdateMarked(s2["marked_for_review"], question_id, form))
               IN [session |-> s3,
                   resp |-> Navigate(q_idx, Len(ordered_ids), form)]
          ELSE [session |-> s1,
                resp |-> RenderQuestion(s1, q_idx, question_id,
                                        ALL_QUESTIONS_MAP[question_id])]

\* json.dumps(answers): the text encoding of the dict, as its key/value pairs.
JsonDumps(answers) == {<<q_id, answers[q_id]>> : q_id \in DOMAIN answers}

\* json.loads(data): the dict of an encoded answers mapping.
JsonLoads(data) ==
    [q_id \in {p[1] : p \in data} |-> (CHOOSE p \in data : p[1] = q_id)[2]]

\* The Score row results() builds from the summary.
ScoreRow(id, user_id, summary, answers, end_time) ==
    [id |-> id,
     user_id |-> user_id,
     timestamp |-> end_time,
     total_score |-> summary.total_score,
     math_score |-> summary.math_score,
     rw_score |-> summary.rw_score,
     correct_count |-> summary.correct_count,
     total_answered |-> summary.total_answered,
     answers_data |-> JsonDumps(answers)]

\* The results page results() renders; score_id 0 stands for None (row ids
\* start at 1).
ResultsPage(results_summary, time_taken_minutes, score_id, flash) ==
    [kind |-> "render",
     template |-> "results_page.html",
     results |-> results_summary,
     time_taken_minutes |-> time_taken_minutes,
     score_id |-> score_id,
     flash |-> flash]

\* The exit of results() on a session without answers or start_time, were it
\* to score the default of session.get('answers', {}) and render the page.
IncompleteSessionScored(s, rows) ==
    [session |-> s, scores |-> rows,
     resp |-> ResultsPage(calculate_mock_score(EmptyDict), 0, 0, "")]

\* The exit of results() on a session without answers or start_time.
IncompleteSession(s, rows) ==
    [session |-> s, scores |-> rows,
     resp |-> Redirect("index", "Test data is incomplete")]

\* The session pops of results(), were they the last step of the try block.
SessionAfterResultsInTry(s, commit_ok) ==
    IF commit_ok THEN DictPopAll(s, SessionKeys) ELSE s

\* The session pops of results(), were they the last step of the except block.
SessionAfterResultsInExcept(s, commit_ok) ==
    IF commit_ok THEN s ELSE DictPopAll(s, SessionKeys)

\* The session pops at the end of results(), after the try block whatever the
\* commit did.
SessionAfterResults(s, commit_ok) == DictPopAll(s, SessionKeys)

\* results(): the session it leaves, its response and the Score table. commit_ok
\* is whether db.session.commit() succeeds; a failed commit is rolled back.
\* start_time is an isoformat string of datetime.now(), never empty and always
\* parseable, so the two start_time error exits are not taken.
results(s, user_id, t, commit_ok, rows) ==
    IF "answers" \notin DOMAIN s \/ "start_time" \notin DOMAIN s
    THEN IncompleteSession(s, rows)
    ELSE
    LET user_submitted_answers == s["answers"]
        results_summary == calculate_mock_score(user_submitted_answers)
        new_score == ScoreRow(Len(rows) + 1, user_id, results_summary,
                              user_submitted_answers, t)
        cleared == SessionAfterResults(s, commit_ok)
        time_taken_minutes == t - s["start_time"]
    IN IF commit_ok
       THEN [session |-> cleared, scores |-> Append(rows, new_score),
             resp |-> ResultsPage(results_summary, time_taken_minutes,
                                  new_score.id, "results saved")]
       ELSE [session |-> cleared, scores |-> rows,
             resp |-> ResultsPage(results_summary, time_taken_minutes,
                                  0, "database error")]

\* reset_test() whose key list lacks 'answers' and 'marked_for_review'.
reset_test_keeps_answers(s) ==
    [session |-> DictPopAll(s, SessionKeys \ {"answers", "marked_for_review"}),
     resp |-> Redirect("index", "session reset")]

\* reset_test(): pops the five test keys.
reset_test(s) ==
    [session |-> DictPopAll(s, SessionKeys),
     resp |-> Redirect("index", "session reset")]

\* logout(): logout_user() and session.clear().
logout(s) ==
    [session |-> EmptyDict, resp |-> Redirect("index", "logged out")]

\* login() of a user whose password checks: login_user() stores the user id
\* in the session.
login(s, user_id) ==
    [session |-> DictSet(s, "_user_id", user_id),
     resp |-> Redirect("index", "logged in")]

\* current_user.is_authenticated
is_authenticated(s) == "_user_id" \in DOMAIN s

(* ------------------------------- requests ----------------------------- *)

\* The dict of one form field: empty when the field is not sent.
Field(k, v) == IF v = None THEN EmptyDict ELSE [x \in {k} |-> v]

\* The forms a POST can carry: each field absent or one of its values.
Forms ==
    {Field("answer", a) @@ Field("mark_review", m) @@ Field("action", x) :
        a \in {None, ""} \cup Options,
        m \in {None, "true", "false"},
        x \in {None, "next", "back"}}

\* The question indices a URL can carry: <int:q_idx> admits no negative one.
Indices == 0..MaxQuestions

\* The requests a client can send.
Requests ==
    {[op |-> o] : o \in {"login", "logout", "start_test", "results", "reset_test"}}
    \cup {[op |-> "test_question_page", q_idx |-> i, method |-> "GET",
           form |-> EmptyDict] : i \in Indices}
    \cup {[op |-> "test_question_page", q_idx |-> i, method |-> "POST",
           form |-> f] : i \in Indices, f \in Forms}

\* The routes under @login_required.
LoginRequired == {"logout", "start_test", "test_question_page", "results", "reset_test"}

\* The clock advances by more than the test duration at a time.
TickMinutes == TEST_DURATION_MINUTES + 1

\* The request of user u waits for its handler.
Pending(u) == req[u] # NoRequest /\ resp[u] = NoResponse

\* The request of user u has been handled and answered.
Answered(u) == req[u] # NoRequest /\ resp[u] # NoResponse

(* ------------------------------- actions ------------------------------ *)

Init ==
    /\ QUESTIONS_DATA \in Catalogs
    /\ store = [u \in Users |-> EmptyDict]
    /\ scores = <<>>
    /\ now = 0
    /\ req = [u \in Users |-> NoRequest]
    /\ resp = [u \in Users |-> NoResponse]
    /\ before = [u \in Users |-> EmptyDict]
    /\ scores_before = [u \in Users |-> <<>>]
    /\ saved = [u \in Users |-> 0]

\* The client of user u sends a request.
Send(u, request) ==
    /\ req[u] = NoRequest
    /\ req' = [req EXCEPT ![u] = request]
    /\ UNCHANGED <<QUESTIONS_DATA, store, scores, now, resp, before,
                   scores_before, saved>>

\* The client of user u takes the response of its request.
Receive(u) ==
    /\ Answered(u)
    /\ req' = [req EXCEPT ![u] = NoRequest]
    /\ resp' = [resp EXCEPT ![u] = NoResponse]
    /\ before' = [before EXCEPT ![u] = EmptyDict]
    /\ scores_before' = [scores_before EXCEPT ![u] = <<>>]
    /\ UNCHANGED <<QUESTIONS_DATA, store, scores, now, saved>>

\* Handle() with one session dictionary for all users.
HandleShared(u, r) ==
    /\ store' = [v \in Users |-> r.session]
    /\ resp' = [resp EXCEPT ![u] = r.resp]
    /\ before' = [before EXCEPT ![u] = store[u]]
    /\ scores_before' = [scores_before EXCEPT ![u] = scores]
    /\ UNCHANGED <<QUESTIONS_DATA, now, req>>

\* A handler's result is saved to the session of u and answered.
Handle(u, r) ==
    /\ store' = [store EXCEPT ![u] = r.session]
    /\ resp' = [resp EXCEPT ![u] = r.resp]
    /\ before' = [before EXCEPT ![u] = store[u]]
    /\ scores_before' = [scores_before EXCEPT ![u] = scores]
    /\ UNCHANGED <<QUESTIONS_DATA, now, req>>

\* @login_required turns away a request of a user who is not logged in.
Unauthorized(u) ==
    /\ Pending(u)
    /\ req[u].op \in LoginRequired
    /\ ~is_authenticated(store[u])
    /\ resp' = [resp EXCEPT ![u] = Redirect("login", "Please log in")]
    /\ before' = [before EXCEPT ![u] = store[u]]
    /\ scores_before' = [scores_before EXCEPT ![u] = scores]
    /\ UNCHANGED <<QUESTIONS_DATA, store, scores, now, req, saved>>

Login(u) ==
    /\ Pending(u)
    /\ req[u].op = "login"
    /\ IF is_authenticated(store[u])
       THEN Handle(u, [session |-> store[u], resp |-> Redirect("index", "")])
       ELSE Handle(u, login(store[u], u))
    /\ UNCHANGED <<scores, saved>>

Logout(u) ==
    /\ Pending(u)
    /\ req[u].op = "logout"
    /\ is_authenticated(store[u])
    /\ Handle(u, logout(store[u]))
    /\ UNCHANGED <<scores, saved>>

StartTest(u) ==
    /\ Pending(u)
    /\ req[u].op = "start_test"
    /\ is_authenticated(store[u])
    /\ LET r == start_test(store[u], now)
       IN /\ Handle(u, r)
          /\ saved' = IF r.resp.endpoint = "test_question_page"
                      THEN [saved EXCEPT ![u] = 0]
                      ELSE saved
    /\ UNCHANGED scores

TestQuestionPage(u) ==
    /\ Pending(u)
    /\ req[u].op = "test_question_page"
    /\ is_authenticated(store[u])
    /\ Handle(u, test_question_page(store[u], req[u].q_idx, req[u].method,
                                    req[u].form))
    /\ UNCHANGED <<scores, saved>>

\* db.session.commit() succeeds or raises: outcomes are the outcomes the
\* database can produce; a full table takes no further row.
Results(u, outcomes) ==
    /\ Pending(u)
    /\ req[u].op = "results"
    /\ is_authenticated(store[u])
    /\ \E commit_ok \in outcomes :
          /\ commit_ok => Len(scores) < MaxScores
          /\ LET r == results(store[u], u, now, commit_ok, scores)
             IN /\ Handle(u, r)
                /\ scores' = r.scores
                /\ saved' = [saved EXCEPT
                                ![u] = @ + Len(r.scores) - Len(scores)]

ResetTest(u) ==
    /\ Pending(u)
    /\ req[u].op = "reset_test"
    /\ is_authenticated(store[u])
    /\ Handle(u, reset_test(store[u]))
    /\ UNCHANGED <<scores, saved>>

Tick ==
    /\ now + TickMinutes <= MaxNow
    /\ now' = now + TickMinutes
    /\ UNCHANGED <<QUESTIONS_DATA, store, scores, req, resp, before,
                   scores_before, saved>>

\* One request cycle of user u, sending one of requests, the database
\* answering commits with one of outcomes.
Serve(u, requests, outcomes) ==
    \/ \E request \in requests : Send(u, request)
    \/ Unauthorized(u)
    \/ Login(u)
    \/ Logout(u)
    \/ StartTest(u)
    \/ TestQuestionPage(u)
    \/ Results(u, outcomes)
    \/ ResetTest(u)
    \/ Receive(u)

\* The requests of one client, handled one at a time.
Client == "u1"

\* The session state machine: every request of the client, while the database
\* refuses the commit of the Score row (the session is cleared all the same).
Next == Serve(Client, Requests, {FALSE})

Spec == Init /\ [][Next]_vars

\* The same requests while the clock runs.
NextClock ==
    \/ Next
    \/ Tick

SpecClock == Init /\ [][NextClock]_vars

\* The restart, were a session to refer to the catalog's ordering instead of
\* holding a copy of it.
RedeployByReference ==
    /\ \A u \in Users : req[u] = NoRequest
    /\ QUESTIONS_DATA' \in Catalogs \ {QUESTIONS_DATA}
    /\ store' = [u \in Users |->
                    IF "test_questions_ids_ordered" \in DOMAIN store[u]
                    THEN DictSet(store[u], "test_questions_ids_ordered",
                                 ORDERED_QUESTION_IDS')
                    ELSE store[u]]
    /\ UNCHANGED <<scores, now, req, resp, before, scores_before, saved>>

\* The process is restarted with another question bank while no request is
\* in flight: the module-level data is loaded anew, the clients keep their
\* session cookies and the database its rows.
Redeploy ==
    /\ \A u \in Users : req[u] = NoRequest
    /\ QUESTIONS_DATA' \in Catalogs \ {QUESTIONS_DATA}
    /\ UNCHANGED <<store, scores, now, req, resp, before, scores_before, saved>>

\* The requests of the client across restarts with another question bank.
NextRedeploy ==
    \/ Next
    \/ Redeploy

SpecRedeploy == Init /\ [][NextRedeploy]_vars

\* The requests of an attempt: views, and submits that give or leave out one
\* answer, a review mark and a move.
AttemptRequests ==
    {r \in Requests :
        (r.op = "test_question_page" /\ r.method = "POST")
            => \A k \in DOMAIN r.form : r.form[k] \in {"A", "true", "next", "back"}}

\* Those requests of the client while the clock runs and the process is
\* restarted with another question bank.
NextRedeployClock ==
    \/ Serve(Client, AttemptRequests, {FALSE})
    \/ Redeploy
    \/ Tick

SpecRedeployClock == Init /\ [][NextRedeployClock]_vars

\* Two tabs of the client's browser. Flask keeps the session in a signed
\* cookie: a request carries the cookie the browser holds when it is sent, the
\* handler works on that copy, and the response sets the cookie anew. In the
\* specification of the tabs req, resp and before are indexed by the tabs,
\* before[c] is the session the request of tab c carried, resp[c] is the
\* handler's result (the session to set and the response), and store[Client]
\* is the cookie the browser holds.
Tabs == {"c1", "c2"}

\* The client is logged in and has started a test on a catalog of one math
\* and one reading_writing question.
InitTabs ==
    /\ QUESTIONS_DATA = QuestionsData(1, 1)
    /\ store = [u \in Users |->
                  IF u = Client
                  THEN start_test(login(EmptyDict, Client).session, 0).session
                  ELSE EmptyDict]
    /\ scores = <<>>
    /\ now = 0
    /\ req = [c \in Tabs |-> NoRequest]
    /\ resp = [c \in Tabs |-> NoResponse]
    /\ before = [c \in Tabs |-> EmptyDict]
    /\ scores_before = [u \in Users |-> <<>>]
    /\ saved = [u \in Users |-> 0]

\* The question requests of a tab: views, and submits of an answer or of a
\* review mark.
TabRequests ==
    {r \in Requests :
        /\ r.op = "test_question_page"
        /\ r.q_idx <= 1
        /\ r.method = "POST"
            => /\ "action" \notin DOMAIN r.form
               /\ \A k \in DOMAIN r.form : r.form[k] \in Options \cup {"true"}}

\* Tab c sends its request, with the cookie the browser holds. Each tab sends
\* one request.
SendOn(c, request) ==
    /\ req[c] = NoRequest
    /\ resp[c] = NoResponse
    /\ req' = [req EXCEPT ![c] = request]
    /\ before' = [before EXCEPT ![c] = store[Client]]
    /\ UNCHANGED <<QUESTIONS_DATA, store, scores, now, resp, scores_before,
                   saved>>

\* test_question_page() handles the request of tab c on the session the
\* request carried.
HandleOn(c) ==
    /\ Pending(c)
    /\ resp' = [resp EXCEPT ![c] =
                  test_question_page(before[c], req[c].q_idx, req[c].method,
                                     req[c].form)]
    /\ UNCHANGED <<QUESTIONS_DATA, store, scores, now, req, before,
                   scores_before, saved>>

\* The browser, were it to keep the answers of the cookie it holds that the
\* response's session lacks.
ReceiveOnMerged(c) ==
    /\ Answered(c)
    /\ LET held == store[Client]["answers"]
           set == resp[c].session["answers"]
           merged == [q \in DOMAIN held \cup DOMAIN set |->
                         IF q \in DOMAIN set THEN set[q] ELSE held[q]]
       IN store' = [store EXCEPT
                      ![Client] = DictSet(resp[c].session, "answers", merged)]
    /\ req' = [req EXCEPT ![c] = NoRequest]
    /\ UNCHANGED <<QUESTIONS_DATA, scores, now, resp, before, scores_before,
                   saved>>

\* The browser takes the response of tab c: every path of test_question_page
\* modifies the session (the flash() of a refusal, the assignment of the
\* index otherwise), so the response sets the cookie, which replaces the one
\* the browser holds.
ReceiveOn(c) ==
    /\ Answered(c)
    /\ store' = [store EXCEPT ![Client] = resp[c].session]
    /\ req' = [req EXCEPT ![c] = NoRequest]
    /\ UNCHANGED <<QUESTIONS_DATA, scores, now, resp, before, scores_before,
                   saved>>

\* One request of each tab, the two interleaved in any order.
NextTabs ==
    \E c \in Tabs :
        \/ \E request \in TabRequests : SendOn(c, request)
        \/ HandleOn(c)
        \/ ReceiveOn(c)

SpecTabs == InitTabs /\ [][NextTabs]_vars

\* The catalogs of the runs that commit rows: one question fewer, as every
\* row holds a copy of the answers.
ScoreCatalogs ==
    {QuestionsData(n - (n \div 2), n \div 2) : n \in 0..(MaxQuestions - 1)}

InitScores ==
    /\ Init
    /\ QUESTIONS_DATA \in ScoreCatalogs

\* The requests on the way to a Score row: login and logout, start, submits of
\* an option, results and reset.
ScoreRequests ==
    {r \in Requests :
        r.op = "test_question_page"
            => /\ r.method = "POST"
               /\ DOMAIN r.form = {"answer"}
               /\ r.form["answer"] \in Options}

\* Those requests with a database that commits or refuses.
NextScores == Serve(Client, ScoreRequests, BOOLEAN)

SpecScores == InitScores /\ [][NextScores]_vars

\* The runs with two clients have a catalog of one question.
InitUsers ==
    /\ Init
    /\ QUESTIONS_DATA = QuestionsData(1, 0)

\* The requests of the runs with two clients: login and logout, start, views
\* and submits of an option for an index of the catalog or the one past it,
\* results and reset.
UserRequests ==
    {r \in Requests :
        r.op = "test_question_page"
            => /\ r.q_idx <= 1
               /\ r.method = "POST"
                    => /\ DOMAIN r.form = {"answer"}
                       /\ r.form["answer"] \in Options}

\* The requests of all users, interleaved in any order: a request of one user
\* may be sent, handled and answered between any two steps of another's.
NextUsers == \E u \in Users : Serve(u, UserRequests, {FALSE})

SpecUsers == InitUsers /\ [][NextUsers]_vars

\* The section sizes of the QUESTIONS_DATA literal of the source: 10 math and
\* 20 reading_writing questions.
SourceShape == <<10, 20>>

\* A section of 15 questions, the smallest total at which int((c / t) * 600)
\* falls short of the exact quotient.
ShortShape == <<0, 15>>

\* The catalogs of the scoring runs, by their section sizes.
ScoringShapes ==
    ((0..MaxSection) \X (0..MaxSection)) \cup {SourceShape, ShortShape}

ScoringCatalogs == {QuestionsData(sh[1], sh[2]) : sh \in ScoringShapes}

\* An option that is not option a.
Wrong(a) == CHOOSE o \in Options : o # a

\* Answers to the first k + j of questions: the first k correct, the next j
\* wrong.
SectionAnswers(questions, k, j) ==
    [q_id \in {questions[i].id : i \in 1..(k + j)} |->
        LET i == CHOOSE n \in 1..(k + j) : questions[n].id = q_id
        IN IF i <= k
           THEN questions[i].correctAnswer
           ELSE Wrong(questions[i].correctAnswer)]

\* An id no catalog has.
UnknownId == <<"x", 1>>

\* The numbers <<k, j>> of correct and of wrong answers to a section of n
\* questions: every split of a section of up to MaxSection questions; of a
\* larger one, any number of correct answers with the rest unanswered, and
\* every answer wrong.
AnswerSplits(n) ==
    {p \in (0..n) \X (0..n) :
        /\ p[1] + p[2] <= n
        /\ n > MaxSection => (p[2] = 0 \/ p = <<0, n>>)}

\* The answers mappings scored against catalog data, with or without an
\* answer to an unknown id.
AnswerInputs(data) ==
    {SectionAnswers(data.math, m[1], m[2])
        @@ SectionAnswers(data.reading_writing, r[1], r[2]) @@ x :
        m \in AnswerSplits(Len(data.math)),
        r \in AnswerSplits(Len(data.reading_writing)),
        x \in {EmptyDict, UnknownId :> "A"}}

\* The session of a logged-in user after start_test() at time 0 and submits
\* that recorded answers.
SessionWithAnswers(user_id, answers) ==
    DictSet(start_test(login(EmptyDict, user_id).session, 0).session,
            "answers", answers)

\* The client has a test under way and has sent the results request.
InitScoring ==
    /\ QUESTIONS_DATA \in ScoringCatalogs
    /\ \E answers \in AnswerInputs(QUESTIONS_DATA) :
          store = [u \in Users |->
                      IF u = Client
                      THEN SessionWithAnswers(u, answers)
                      ELSE EmptyDict]
    /\ scores = <<>>
    /\ now = 0
    /\ req = [u \in Users |->
                 IF u = Client THEN [op |-> "results"] ELSE NoRequest]
    /\ resp = [u \in Users |-> NoResponse]
    /\ before = [u \in Users |-> EmptyDict]
    /\ scores_before = [u \in Users |-> <<>>]
    /\ saved = [u \in Users |-> 0]

\* results() scores the answers, the commit succeeding or not.
NextScoring ==
    \/ Results(Client, BOOLEAN)
    \/ Receive(Client)

SpecScoring == InitScoring /\ [][NextScoring]_vars

(* ------------------------- properties of the code --------------------- *)

\* The stored id list of session s, the empty list when it has none.
OrderedIds(s) ==
    IF "test_questions_ids_ordered" \in DOMAIN s
    THEN s["test_questions_ids_ordered"] ELSE <<>>

\* The ids of the stored id list of session s.
OrderedIdSet(s) == {OrderedIds(s)[i] : i \in 1..Len(OrderedIds(s))}

\* The request of u was a test_question_page request that reached the handler.
QuestionHandled(u) ==
    /\ Answered(u)
    /\ req[u].op = "test_question_page"
    /\ is_authenticated(before[u])

\* ... on a valid session, with an index inside the stored id list.
InRangeHandled(u) ==
    /\ QuestionHandled(u)
    /\ session_valid(before[u])
    /\ req[u].q_idx < Len(OrderedIds(before[u]))

\* ... on a valid session, with an index outside the stored id list.
OutOfRangeHandled(u) ==
    /\ QuestionHandled(u)
    /\ session_valid(before[u])
    /\ req[u].q_idx >= Len(OrderedIds(before[u]))

\* A submit: an in-range POST.
SubmitHandled(u) == InRangeHandled(u) /\ req[u].method = "POST"

\* The id of the question a handled in-range request is about.
QuestionIdOf(u) == OrderedIds(before[u])[req[u].q_idx + 1]

\* The request of u was a start_test request that reached the handler.
StartHandled(u) ==
    /\ Answered(u)
    /\ req[u].op = "start_test"
    /\ is_authenticated(before[u])

\* C1: whenever a session holds both a current index and an ordered id list,
\* 0 <= current_question_index < len(test_questions_ids_ordered).
C1_IndexInRange ==
    \A u \in Users :
        LET s == store[u]
        IN ("current_question_index" \in DOMAIN s
                /\ "test_questions_ids_ordered" \in DOMAIN s)
           => /\ 0 <= s["current_question_index"]
              /\ s["current_question_index"] < Len(s["test_questions_ids_ordered"])

\* An out-of-range request has been handled on a session whose index had moved
\* off the first question.
C1_Witness ==
    \E u \in Users :
        /\ OutOfRangeHandled(u)
        /\ store[u]["current_question_index"] = 1

\* C2: the keys of answers and of marked_for_review are ids of the stored
\* ordered id list of the same session (none when the session has no list).
C2_KeysInOrderedIds ==
    \A u \in Users :
        LET s == store[u]
        IN /\ "answers" \in DOMAIN s => DOMAIN s["answers"] \subseteq OrderedIdSet(s)
           /\ "marked_for_review" \in DOMAIN s
                => DOMAIN s["marked_for_review"] \subseteq OrderedIdSet(s)

\* A submit has recorded an answer and a review mark.
C2_Witness ==
    \E u \in Users :
        /\ SubmitHandled(u)
        /\ DOMAIN store[u]["answers"] # {}
        /\ DOMAIN store[u]["marked_for_review"] # {}

\* C3: with a non-empty catalog a start succeeds from any prior session and
\* leaves exactly the fresh session: index 0, no answers, no marks, and the
\* full catalog ordering.
C3_StartIsFresh ==
    \A u \in Users :
        (StartHandled(u) /\ ORDERED_QUESTION_IDS # <<>>)
        => /\ resp[u] = RedirectToQuestion(0, "")
           /\ SessionKeys \subseteq DOMAIN store[u]
           /\ store[u]["current_question_index"] = 0
           /\ store[u]["answers"] = EmptyDict
           /\ store[u]["marked_for_review"] = EmptyDict
           /\ store[u]["test_questions_ids_ordered"] = ORDERED_QUESTION_IDS
           /\ Len(store[u]["test_questions_ids_ordered"]) = TOTAL_QUESTIONS

\* A start has replaced an in-progress session that held answers and marks and
\* stood at the second question.
C3_Witness ==
    \E u \in Users :
        /\ StartHandled(u)
        /\ session_valid(before[u])
        /\ before[u]["current_question_index"] = 1
        /\ DOMAIN before[u]["answers"] # {}
        /\ DOMAIN before[u]["marked_for_review"] # {}
        /\ session_valid(store[u])

\* C4: with an empty catalog a start is answered with the 'cannot start test'
\* redirect to the index page, and no session is ever valid (in progress).
C4_EmptyCatalogStartFails ==
    \A u \in Users :
        ORDERED_QUESTION_IDS = <<>>
        => /\ ~session_valid(store[u])
           /\ StartHandled(u) => resp[u] = Redirect("index", "Cannot start test")

\* A start on the empty catalog has been handled.
C4_Witness ==
    \E u \in Users :
        /\ StartHandled(u)
        /\ ORDERED_QUESTION_IDS = <<>>

\* C5: a GET of index i inside the id list of a valid session renders the
\* question whose id is the list's element i, as question number i + 1.
C5_ViewServesIndexedQuestion ==
    \A u \in Users :
        (InRangeHandled(u) /\ req[u].method = "GET")
        => /\ resp[u].kind = "render"
           /\ resp[u].question.id = QuestionIdOf(u)
           /\ resp[u].question_number = req[u].q_idx + 1
           /\ resp[u].q_idx = req[u].q_idx

\* The second question has been viewed.
C5_Witness ==
    \E u \in Users :
        /\ InRangeHandled(u)
        /\ req[u].method = "GET"
        /\ req[u].q_idx = 1
        /\ resp[u].kind = "render"

\* C6: a GET or POST with an index outside the id list is answered with a
\* redirect to the stored current index if that is in range, else to 0, and
\* leaves the session (index, answers, marks and all) as it was.
C6_OutOfRangeRedirects ==
    \A u \in Users :
        OutOfRangeHandled(u)
        => LET stored == before[u]["current_question_index"]
               clamped == IF 0 <= stored /\ stored < Len(OrderedIds(before[u]))
                          THEN stored ELSE 0
           IN /\ resp[u].kind = "redirect"
              /\ resp[u].endpoint = "test_question_page"
              /\ resp[u].q_idx = clamped
              /\ store[u]["current_question_index"] = stored
              /\ store[u]["answers"] = before[u]["answers"]
              /\ store[u]["marked_for_review"] = before[u]["marked_for_review"]
              /\ store[u] = before[u]

\* An out-of-range POST carrying an answer and a mark has been redirected to
\* the stored index 1.
C6_Witness ==
    \E u \in Users :
        /\ OutOfRangeHandled(u)
        /\ req[u].method = "POST"
        /\ FormHas(req[u].form, "answer")
        /\ FormHas(req[u].form, "mark_review")
        /\ before[u]["current_question_index"] = 1
        /\ resp[u].kind = "redirect"
        /\ resp[u].q_idx = 1

\* C7: recording an answer is idempotent: after a submit, the same submit
\* handled again leaves the answers as they are, and a submit of the value
\* already recorded for the question leaves the answers as they were.
C7_RecordAnswerIdempotent ==
    \A u \in Users :
        SubmitHandled(u)
        => /\ test_question_page(store[u], req[u].q_idx, "POST",
                                 req[u].form).session["answers"]
                = store[u]["answers"]
           /\ ( /\ FormHas(req[u].form, "answer")
                /\ QuestionIdOf(u) \in DOMAIN before[u]["answers"]
                /\ before[u]["answers"][QuestionIdOf(u)] = req[u].form["answer"] )
              => store[u]["answers"] = before[u]["answers"]

\* A submit has recorded the value that was already recorded for the question.
C7_Witness ==
    \E u \in Users :
        /\ SubmitHandled(u)
        /\ FormHas(req[u].form, "answer")
        /\ QuestionIdOf(u) \in DOMAIN before[u]["answers"]
        /\ before[u]["answers"][QuestionIdOf(u)] = req[u].form["answer"]

\* C8: a submit without an answer value (absent or empty) leaves answers as it
\* was; a submit with a value sets the question's answer to it and changes no
\* other key.
C8_AnswerFrame ==
    \A u \in Users :
        SubmitHandled(u)
        => LET old == before[u]["answers"]
               new == store[u]["answers"]
               q == QuestionIdOf(u)
               f == req[u].form
           IN IF "answer" \in DOMAIN f /\ f["answer"] # ""
              THEN /\ DOMAIN new = DOMAIN old \cup {q}
                   /\ new[q] = f["answer"]
                   /\ \A k \in DOMAIN old \ {q} : new[k] = old[k]
              ELSE new = old

\* A submit with an empty answer value has kept the answer recorded before.
C8_Witness ==
    \E u \in Users :
        /\ SubmitHandled(u)
        /\ "answer" \in DOMAIN req[u].form
        /\ req[u].form["answer"] = ""
        /\ QuestionIdOf(u) \in DOMAIN before[u]["answers"]
        /\ QuestionIdOf(u) \in DOMAIN store[u]["answers"]

\* C9: after a submit the question is marked for review exactly if the form
\* said mark_review = 'true'; unmarking an unmarked question is answered like
\* any submit; the marks of the other questions stay, and so do the answers
\* when the form carries no answer value.
C9_ReviewMark ==
    \A u \in Users :
        SubmitHandled(u)
        => LET old == before[u]["marked_for_review"]
               new == store[u]["marked_for_review"]
               q == QuestionIdOf(u)
               f == req[u].form
               marked == "mark_review" \in DOMAIN f /\ f["mark_review"] = "true"
           IN /\ q \in DOMAIN new <=> marked
              /\ q \in DOMAIN new => new[q] = TRUE
              /\ DOMAIN new \ {q} = DOMAIN old \ {q}
              /\ \A k \in DOMAIN old \ {q} : new[k] = old[k]
              /\ resp[u].kind = "redirect"
              /\ resp[u].endpoint \in {"test_question_page", "results"}
              /\ resp[u].flash = ""
              /\ ~FormHas(f, "answer") => store[u]["answers"] = before[u]["answers"]

\* A submit with mark_review = 'false' has unmarked a question that was not
\* marked, while another question stays marked.
C9_Witness ==
    \E u \in Users :
        /\ SubmitHandled(u)
        /\ "mark_review" \in DOMAIN req[u].form
        /\ req[u].form["mark_review"] = "false"
        /\ QuestionIdOf(u) \notin DOMAIN before[u]["marked_for_review"]
        /\ DOMAIN store[u]["marked_for_review"] # {}

\* C10: a submit with action 'back' at index 0 is answered with a redirect to
\* index 0 and leaves the current index 0; no redirect names a negative index.
C10_BackAtFirstStays ==
    \A u \in Users :
        /\ ( /\ SubmitHandled(u)
             /\ req[u].q_idx = 0
             /\ "action" \in DOMAIN req[u].form
             /\ req[u].form["action"] = "back" )
           => /\ resp[u] = RedirectToQuestion(0, "")
              /\ store[u]["current_question_index"] = 0
        /\ (Answered(u) /\ resp[u].kind = "redirect"
                /\ resp[u].endpoint = "test_question_page")
           => resp[u].q_idx >= 0

\* 'back' has been submitted at index 0 of a test of two questions that stood
\* at index 0.
C10_Witness ==
    \E u \in Users :
        /\ SubmitHandled(u)
        /\ req[u].q_idx = 0
        /\ "action" \in DOMAIN req[u].form
        /\ req[u].form["action"] = "back"
        /\ before[u]["current_question_index"] = 0
        /\ Len(OrderedIds(before[u])) >= 2

\* The action field of the form of the request of u, None when it has none.
ActionOf(u) ==
    IF "action" \in DOMAIN req[u].form THEN req[u].form["action"] ELSE None

\* C11: a submit with action 'next' at the last index of the stored id list is
\* answered with the redirect to results, and no answer of a question request
\* on a valid session redirects to an index at or past the end of the list.
C11_NextAtLastIsTerminal ==
    \A u \in Users :
        /\ ( /\ SubmitHandled(u)
             /\ ActionOf(u) = "next"
             /\ req[u].q_idx = Len(OrderedIds(before[u])) - 1 )
           => resp[u] = Redirect("results", "")
        /\ ( /\ QuestionHandled(u)
             /\ session_valid(before[u])
             /\ resp[u].kind = "redirect"
             /\ resp[u].endpoint = "test_question_page" )
           => resp[u].q_idx < Len(OrderedIds(before[u]))

\* 'next' has been submitted at the last index of a test of two questions.
C11_Witness ==
    \E u \in Users :
        /\ SubmitHandled(u)
        /\ ActionOf(u) = "next"
        /\ Len(OrderedIds(before[u])) >= 2
        /\ req[u].q_idx = Len(OrderedIds(before[u])) - 1

\* A submit with 'next' before the last index, or with 'back' after the first.
MoveHandled(u) ==
    /\ SubmitHandled(u)
    /\ \/ ActionOf(u) = "next" /\ req[u].q_idx + 1 < Len(OrderedIds(before[u]))
       \/ ActionOf(u) = "back" /\ req[u].q_idx > 0

\* The index a move of u leads to: one past or one before the submitted index.
MoveTarget(u) ==
    IF ActionOf(u) = "next" THEN req[u].q_idx + 1 ELSE req[u].q_idx - 1

\* C12: a 'next' before the last index and a 'back' after the first are
\* answered with the index one further or one back, and the stored current
\* index equals the answered index as soon as the submit is answered.
C12_StoredIndexIsReturnedIndex ==
    \A u \in Users :
        MoveHandled(u)
            => /\ resp[u] = RedirectToQuestion(MoveTarget(u), "")
               /\ store[u]["current_question_index"] = resp[u].q_idx

\* The request of u was a results request that reached the handler.
ResultsHandled(u) ==
    /\ Answered(u)
    /\ req[u].op = "results"
    /\ is_authenticated(before[u])

\* Session s lacks what results() needs to score.
Incomplete(s) == "answers" \notin DOMAIN s \/ "start_time" \notin DOMAIN s

\* C13: results on a session without answers or without start_time renders no
\* score report and commits no row; it is answered with the redirect to the
\* index page and the flash that the test data is incomplete.
C13_IncompleteSessionFails ==
    \A u \in Users :
        (ResultsHandled(u) /\ Incomplete(before[u]))
            => /\ resp[u] = Redirect("index", "Test data is incomplete")
               /\ scores = scores_before[u]

\* results has been requested again after a row was committed: the session
\* was cleared, so it has no answers.
C13_Witness ==
    \E u \in Users :
        /\ ResultsHandled(u)
        /\ Incomplete(before[u])
        /\ scores # <<>>

\* C14: when results scores a session, the five test keys are gone from the
\* session afterwards and the page with the score of the session's answers is
\* rendered, whether the commit succeeded or not; after a failed commit the
\* rows are the rows from before and the page carries no score id, after a
\* successful one exactly one row was appended.
C14_ClearedInBothOutcomes ==
    \A u \in Users :
        (ResultsHandled(u) /\ ~Incomplete(before[u]))
            => /\ DOMAIN store[u] \cap SessionKeys = {}
               /\ resp[u].kind = "render"
               /\ resp[u].template = "results_page.html"
               /\ resp[u].results = calculate_mock_score(before[u]["answers"])
               /\ \/ /\ resp[u].flash = "database error"
                     /\ resp[u].score_id = 0
                     /\ scores = scores_before[u]
                  \/ /\ resp[u].flash = "results saved"
                     /\ Len(scores) = Len(scores_before[u]) + 1
                     /\ SubSeq(scores, 1, Len(scores) - 1) = scores_before[u]
                     /\ resp[u].score_id = scores[Len(scores)].id

\* The commit of the row of a session with a recorded answer has failed.
C14_Witness ==
    \E u \in Users :
        /\ ResultsHandled(u)
        /\ ~Incomplete(before[u])
        /\ DOMAIN before[u]["answers"] # {}
        /\ resp[u].flash = "database error"

\* C15: since the last successful start of a user at most one row was
\* committed for that user (with an empty catalog no start succeeds).
C15_AtMostOneRowPerAttempt ==
    \A u \in Users : TOTAL_QUESTIONS > 0 => saved[u] <= 1

\* results has been requested a second time in one attempt, after the first
\* request committed the row of the attempt, and found the session cleared.
C15_Witness ==
    \E u \in Users :
        /\ ResultsHandled(u)
        /\ TOTAL_QUESTIONS > 0
        /\ saved[u] = 1
        /\ Incomplete(before[u])
        /\ scores = scores_before[u]

\* The results request of u was answered with a score report.
Scored(u) == ResultsHandled(u) /\ ~Incomplete(before[u])

\* The answers that were scored for u, and the report of their score.
ScoredAnswers(u) == before[u]["answers"]

ScoreReport(u) == resp[u].results

\* The number of the questions of a section (a list of the catalog) whose
\* recorded answer is exactly the correct answer.
SectionCorrect(questions, answers) ==
    Cardinality({i \in 1..Len(questions) :
                    /\ questions[i].id \in DOMAIN answers
                    /\ answers[questions[i].id] = questions[i].correctAnswer})

\* No recorded answer to a question of the catalog is correct.
NoneCorrect(answers) ==
    /\ SectionCorrect(QUESTIONS_DATA.math, answers) = 0
    /\ SectionCorrect(QUESTIONS_DATA.reading_writing, answers) = 0

\* Every question of the catalog is answered correctly.
AllCorrect(answers) ==
    /\ SectionCorrect(QUESTIONS_DATA.math, answers) = Len(QUESTIONS_DATA.math)
    /\ SectionCorrect(QUESTIONS_DATA.reading_writing, answers)
          = Len(QUESTIONS_DATA.reading_writing)

\* C17: in every score report the math score and the reading-writing score
\* lie in 200..800 and the total score in 400..1600, whatever the catalog and
\* the answers.
C17_ScoresInRange ==
    \A u \in Users :
        Scored(u) => /\ ScoreReport(u).math_score \in 200..800
                     /\ ScoreReport(u).rw_score \in 200..800
                     /\ ScoreReport(u).total_score \in 400..1600

\* Answers that are all correct and hold an unknown id as well have been
\* scored at the upper end of the range.
C17_Witness ==
    \E u \in Users :
        /\ Scored(u)
        /\ UnknownId \in DOMAIN ScoredAnswers(u)
        /\ ScoreReport(u).total_score = 1600

\* 200 + floor(600 * correct / total), 200 for a section without questions.
ExactSectionScore(correct, total) ==
    IF total > 0 THEN 200 + ((600 * correct) \div total) ELSE 200

\* C18: the score of each section is 200 + floor(600 * correct / total) with
\* correct the number of the section's questions answered exactly right and
\* total the number of the section's questions, and 200 for a section
\* without questions.
C18_SectionScoreIsExactRatio ==
    \A u \in Users :
        Scored(u)
            => /\ ScoreReport(u).math_score
                    = ExactSectionScore(
                          SectionCorrect(QUESTIONS_DATA.math, ScoredAnswers(u)),
                          Len(QUESTIONS_DATA.math))
               /\ ScoreReport(u).rw_score
                    = ExactSectionScore(
                          SectionCorrect(QUESTIONS_DATA.reading_writing,
                                         ScoredAnswers(u)),
                          Len(QUESTIONS_DATA.reading_writing))

\* C19: when both sections have questions and every question is answered
\* correctly, the total score is 1600, both section scores are 800, and the
\* weaknesses are the one 'Good performance!' entry with its one
\* recommendation.
C19_AllCorrectIsPerfect ==
    \A u \in Users :
        ( /\ Scored(u)
          /\ QUESTIONS_DATA.math # <<>>
          /\ QUESTIONS_DATA.reading_writing # <<>>
          /\ AllCorrect(ScoredAnswers(u)) )
        => /\ ScoreReport(u).total_score = 1600
           /\ ScoreReport(u).math_score = 800
           /\ ScoreReport(u).rw_score = 800
           /\ ScoreReport(u).weaknesses = <<"Good performance!">>
           /\ ScoreReport(u).recommendations = <<"Keep practicing.">>

\* The 10 math and 20 reading-writing questions of the source have all been
\* answered correctly and scored.
C19_Witness ==
    \E u \in Users :
        /\ Scored(u)
        /\ <<Len(QUESTIONS_DATA.math), Len(QUESTIONS_DATA.reading_writing)>>
              = SourceShape
        /\ AllCorrect(ScoredAnswers(u))

\* C20: when no recorded answer is correct, both section scores are 200 and
\* the total score is 400, and the weaknesses hold the math entry whenever
\* the math section has a question; for no recorded answers at all the
\* answered count is 0.
C20_NoneCorrectIsFloor ==
    \A u \in Users :
        (Scored(u) /\ NoneCorrect(ScoredAnswers(u)))
        => /\ ScoreReport(u).math_score = 200
           /\ ScoreReport(u).rw_score = 200
           /\ ScoreReport(u).total_score = 400
           /\ QUESTIONS_DATA.math # <<>>
                => \E i \in 1..Len(ScoreReport(u).weaknesses) :
                       ScoreReport(u).weaknesses[i] = "Math Concepts"
           /\ ScoredAnswers(u) = EmptyDict
                => ScoreReport(u).total_answered = 0

\* A session without any recorded answer has been scored against a catalog
\* with math questions.
C20_Witness ==
    \E u \in Users :
        /\ Scored(u)
        /\ ScoredAnswers(u) = EmptyDict
        /\ QUESTIONS_DATA.math # <<>>

\* The entries of answers whose key has a catalog entry.
KnownAnswers(answers) ==
    [q_id \in {k \in DOMAIN answers :
                  \E i \in 1..Len(ALL_QUESTIONS) : ALL_QUESTIONS[i].id = k}
        |-> answers[q_id]]

\* C21: an entry of answers whose key has no catalog entry is skipped: the
\* results page is rendered, the correct count is the number of catalog
\* questions answered exactly right, and the report is the report of the
\* answers without such entries, except that total_answered is the number of
\* all keys of answers.
C21_UnknownIdSkippedButCounted ==
    \A u \in Users :
        Scored(u)
        => /\ resp[u].kind = "render"
           /\ ScoreReport(u).correct_count
                = SectionCorrect(QUESTIONS_DATA.math, ScoredAnswers(u))
                  + SectionCorrect(QUESTIONS_DATA.reading_writing,
                                   ScoredAnswers(u))
           /\ ScoreReport(u).total_answered
                = Cardinality(DOMAIN ScoredAnswers(u))
           /\ [ScoreReport(u) EXCEPT
                  !.total_answered = Cardinality(DOMAIN KnownAnswers(ScoredAnswers(u)))]
                = calculate_mock_score(KnownAnswers(ScoredAnswers(u)))

\* Answers with an entry for an unknown id next to a correct answer have been
\* scored: one more answered than correct.
C21_Witness ==
    \E u \in Users :
        /\ Scored(u)
        /\ UnknownId \in DOMAIN ScoredAnswers(u)
        /\ ScoreReport(u).correct_count >= 1
        /\ ScoreReport(u).total_answered = ScoreReport(u).correct_count + 1

\* x is an entry of the list seq.
InList(x, seq) == \E i \in 1..Len(seq) : seq[i] = x

\* A section of total questions, correct of them answered right, is weak:
\* it has a question and correct / total < 6 / 10.
WeakSection(correct, total) == total > 0 /\ 10 * correct < 6 * total

\* C22: for a catalog with questions, each section's weakness and its
\* recommendation are reported if and only if the section has a question and
\* less than 60% of its questions are answered right; the 'Good performance!'
\* pair is reported if and only if neither section's is; in every report the
\* weaknesses and the recommendations have the same length, at least one.
C22_DiagnosticsAtSixtyPercent ==
    \A u \in Users :
        Scored(u)
        => LET math == QUESTIONS_DATA.math
               rw == QUESTIONS_DATA.reading_writing
               m == WeakSection(SectionCorrect(math, ScoredAnswers(u)), Len(math))
               r == WeakSection(SectionCorrect(rw, ScoredAnswers(u)), Len(rw))
               w == ScoreReport(u).weaknesses
               c == ScoreReport(u).recommendations
           IN /\ Len(w) = Len(c)
              /\ Len(w) >= 1
              /\ Len(math) + Len(rw) > 0
                 => /\ InList("Math Concepts", w) <=> m
                    /\ InList("Review math topics.", c) <=> m
                    /\ InList("R&W Skills", w) <=> r
                    /\ InList("Focus on R&W techniques.", c) <=> r
                    /\ InList("Good performance!", w) <=> (~m /\ ~r)
                    /\ InList("Keep practicing.", c) <=> (~m /\ ~r)
                    /\ Len(w) = IF m /\ r THEN 2 ELSE 1

\* Exactly 3 of 5 math questions are answered right, and the report names no
\* math weakness.
C22_Witness ==
    \E u \in Users :
        /\ Scored(u)
        /\ Len(QUESTIONS_DATA.math) = 5
        /\ SectionCorrect(QUESTIONS_DATA.math, ScoredAnswers(u)) = 3
        /\ ~InList("Math Concepts", ScoreReport(u).weaknesses)

\* Session s holds a test under way: the five test keys and a list of ids.
TestUnderWay(s) ==
    /\ SessionKeys \subseteq DOMAIN s
    /\ Len(s["test_questions_ids_ordered"]) > 0

\* More than the test duration has passed since the start of the test of s.
Overdue(s) == now - s["start_time"] > TEST_DURATION_MINUTES

\* The step handles a question request of u for an index of the list, on a
\* test under way and overdue.
OverdueQuestionStep(u) ==
    /\ Pending(u)
    /\ req[u].op = "test_question_page"
    /\ "_user_id" \in DOMAIN store[u]
    /\ TestUnderWay(store[u])
    /\ Overdue(store[u])
    /\ req[u].q_idx < Len(store[u]["test_questions_ids_ordered"])
    /\ resp'[u] # NoResponse

\* C23: the test duration is never enforced. A question request handled after
\* more than TEST_DURATION_MINUTES is served as before: a view renders the
\* question, a submit records the answer and the review mark and is answered
\* with the redirect to a question or to results. The passing of time changes
\* no session, and a test under way ends only in the handling of a results,
\* reset_test, logout or start_test request of its user.
C23_DurationNeverEnforced ==
    [][\A u \in Users :
        /\ OverdueQuestionStep(u)
           => LET s == store[u]
                  q_id == s["test_questions_ids_ordered"][req[u].q_idx + 1]
                  form == req[u].form
              IN /\ TestUnderWay(store'[u])
                 /\ store'[u]["start_time"] = s["start_time"]
                 /\ store'[u]["current_question_index"] = req[u].q_idx
                 /\ req[u].method = "GET"
                    => /\ resp'[u].kind = "render"
                       /\ resp'[u].question_number = req[u].q_idx + 1
                       /\ store'[u]["answers"] = s["answers"]
                 /\ req[u].method = "POST"
                    => /\ resp'[u].kind = "redirect"
                       /\ resp'[u].endpoint \in {"test_question_page", "results"}
                       /\ ("answer" \in DOMAIN form /\ form["answer"] # "")
                          => /\ q_id \in DOMAIN store'[u]["answers"]
                             /\ store'[u]["answers"][q_id] = form["answer"]
                       /\ q_id \in DOMAIN store'[u]["marked_for_review"]
                          <=> ("mark_review" \in DOMAIN form
                                  /\ form["mark_review"] = "true")
        /\ now' # now => store' = store
        /\ (TestUnderWay(store[u]) /\ ~TestUnderWay(store'[u]))
           => /\ Pending(u)
              /\ req[u].op \in {"results", "reset_test", "logout", "start_test"}
    ]_vars

\* A submit has recorded a first answer to a question more than the test
\* duration after the start.
C23_Witness ==
    \E u \in Users :
        /\ SubmitHandled(u)
        /\ now - before[u]["start_time"] > TEST_DURATION_MINUTES
        /\ QuestionIdOf(u) \in DOMAIN store[u]["answers"]
        /\ QuestionIdOf(u) \notin DOMAIN before[u]["answers"]

\* The step of a handler on the request of u.
HandlerStep(u) ==
    \/ Unauthorized(u)
    \/ Login(u)
    \/ Logout(u)
    \/ StartTest(u)
    \/ TestQuestionPage(u)
    \/ Results(u, {FALSE})
    \/ ResetTest(u)

\* C24: under any interleaving of the requests of two users the session of a
\* user changes only in the handling of a request of that user, so that a
\* start, view, submit, results or reset of one user leaves the session of
\* the other as it was; and a request in flight can be handled whatever the
\* other user's session and request are.
C24_SessionsIsolated ==
    [][\A u \in Users :
          /\ store'[u] # store[u] => (Pending(u) /\ resp'[u] # NoResponse)
          /\ Pending(u) => ENABLED HandlerStep(u)
    ]_vars

\* A submit of one user has been handled while a request of the other user
\* is in flight, both with a test under way, and their answers differ.
C24_Witness ==
    \E u, v \in Users :
        /\ u # v
        /\ SubmitHandled(u)
        /\ Pending(v)
        /\ TestUnderWay(store[v])
        /\ store[u]["answers"] # store[v]["answers"]

\* C25: the total score of a report is the sum of its math score and its
\* reading-writing score, whatever the catalog and the answers.
C25_TotalIsSumOfSections ==
    \A u \in Users :
        Scored(u)
        => ScoreReport(u).total_score
              = ScoreReport(u).math_score + ScoreReport(u).rw_score

\* Answers that are right in one section and wrong in the other have been
\* scored: the total is neither end of its range.
C25_Witness ==
    \E u \in Users :
        /\ Scored(u)
        /\ ScoreReport(u).math_score = 800
        /\ ScoreReport(u).rw_score = 200
        /\ QUESTIONS_DATA.reading_writing # <<>>
        /\ ScoreReport(u).total_score = 1000

\* C26: scoring splits the ids of the test into the ids that start with 'm'
\* and the ids that start with 'rw': no id is in both groups, the groups are
\* the math and the reading_writing questions of the catalog and together
\* hold every id of the test; a right answer is counted for the group its id
\* is in, so that no group has more right answers than ids.
C26_SectionsPartitionTheTest ==
    /\ \A q_id \in CatalogIds :
          /\ StartsWithM(q_id) # StartsWithRw(q_id)
          /\ StartsWithM(q_id)
                <=> \E i \in 1..Len(QUESTIONS_DATA.math) :
                        QUESTIONS_DATA.math[i].id = q_id
    /\ math_total_qs_in_test = Len(QUESTIONS_DATA.math)
    /\ rw_total_qs_in_test = Len(QUESTIONS_DATA.reading_writing)
    /\ math_total_qs_in_test + rw_total_qs_in_test = TOTAL_QUESTIONS
    /\ TOTAL_QUESTIONS = Len(ORDERED_QUESTION_IDS)
    /\ \A u \in Users :
          Scored(u)
          => LET right == CorrectIds(ScoredAnswers(u))
             IN /\ ScoreReport(u).total_test_questions
                      = math_total_qs_in_test + rw_total_qs_in_test
                /\ ScoreReport(u).total_test_questions
                      = Len(OrderedIds(before[u]))
                /\ \A q_id \in right : StartsWithM(q_id) \/ StartsWithRw(q_id)
                /\ Cardinality({q_id \in right : StartsWithM(q_id)})
                      <= math_total_qs_in_test
                /\ Cardinality({q_id \in right : ~StartsWithM(q_id)})
                      <= rw_total_qs_in_test
                /\ ScoreReport(u).correct_count <= TOTAL_QUESTIONS

\* Answers with a right answer in each section, and not all right, have been
\* scored.
C26_Witness ==
    \E u \in Users :
        /\ Scored(u)
        /\ SectionCorrect(QUESTIONS_DATA.math, ScoredAnswers(u)) >= 1
        /\ SectionCorrect(QUESTIONS_DATA.reading_writing, ScoredAnswers(u)) >= 1
        /\ ScoreReport(u).correct_count < ScoreReport(u).total_test_questions

\* The step handles a request of u that ends or restarts the attempt.
AttemptEndingStep(u) ==
    /\ Pending(u)
    /\ resp'[u] # NoResponse
    /\ req[u].op \in {"results", "reset_test", "logout", "start_test"}

\* C27: within an attempt the answered questions never get fewer: a step
\* that is not the handling of a results, reset_test, logout or start_test
\* request of the user leaves an entry in answers for every question that
\* had one, whatever views and submits (with or without an answer, a review
\* mark or a move) are handled.
C27_AnswersNeverShrink ==
    [][\A u \in Users :
          ("answers" \in DOMAIN store[u] /\ ~AttemptEndingStep(u))
          => /\ "answers" \in DOMAIN store'[u]
             /\ DOMAIN store[u]["answers"] \subseteq DOMAIN store'[u]["answers"]
    ]_vars

\* A submit without an answer value, with the review mark set and a move
\* back, has been handled for a question that was answered, in a test with
\* another answered question.
C27_Witness ==
    \E u \in Users :
        /\ SubmitHandled(u)
        /\ ~FormHas(req[u].form, "answer")
        /\ FormHas(req[u].form, "mark_review")
        /\ ActionOf(u) = "back"
        /\ QuestionIdOf(u) \in DOMAIN before[u]["answers"]
        /\ Cardinality(DOMAIN store[u]["answers"]) >= 2

\* The submit of u failed: the session held no test under way, or the index
\* was outside the stored id list, or the id at the index had no entry in the
\* catalog.
SubmitFailed(u) ==
    /\ QuestionHandled(u)
    /\ req[u].method = "POST"
    /\ \/ ~TestUnderWay(before[u])
       \/ req[u].q_idx >= Len(OrderedIds(before[u]))
       \/ QuestionIdOf(u) \notin CatalogIds

\* C28: a submit that fails leaves the session exactly as it was before the
\* request.
C28_FailedSubmitChangesNothing ==
    \A u \in Users : SubmitFailed(u) => store[u] = before[u]

\* The request of u was handled for a logged-in user on a session that held
\* no test under way.
HandledWithoutTest(u) ==
    /\ Answered(u)
    /\ is_authenticated(before[u])
    /\ ~TestUnderWay(before[u])

\* Without a test under way, a question request is turned away to the index
\* page and the session is kept as it was.
QuestionsRejectedWithoutTest ==
    \A u \in Users :
        (HandledWithoutTest(u) /\ req[u].op = "test_question_page")
            => /\ resp[u] = Redirect("index", "session invalid")
               /\ store[u] = before[u]

\* Without a test under way, only a start that succeeds puts one in the
\* session.
OnlyStartRepairs ==
    \A u \in Users :
        (HandledWithoutTest(u) /\ TestUnderWay(store[u]))
            => /\ req[u].op = "start_test"
               /\ resp[u] = RedirectToQuestion(0, "")

\* C29: while the session holds no test under way (a key of the test is
\* missing or the id list is empty), every question request is turned away
\* with nothing written, every results request is answered as on an
\* incomplete session, and only a successful start puts a test in the session.
C29_NoTestRejectsAll ==
    /\ QuestionsRejectedWithoutTest
    /\ OnlyStartRepairs
    /\ \A u \in Users :
        (HandledWithoutTest(u) /\ req[u].op = "results")
            => resp[u] = Redirect("index", "Test data is incomplete")

\* The start of u was answered with the refusal: no questions are available.
StartFailed(u) ==
    /\ StartHandled(u)
    /\ resp[u] = Redirect("index", "Cannot start test")

\* C30: a start that fails for want of questions leaves neither answers nor
\* start_time in the session, so results on it is answered as on an
\* incomplete session and no Score row is committed for it.
C30_FailedStartLeavesNothing ==
    \A u \in Users :
        /\ StartFailed(u) => Incomplete(store[u])
        /\ TOTAL_QUESTIONS = 0
            => /\ saved[u] = 0
               /\ ResultsHandled(u)
                    => resp[u] = Redirect("index", "Test data is incomplete")

\* C31: the id list and the start time of an attempt are fixed at its start:
\* a successful start stores the catalog's ordering and the time of that
\* moment, and every step that is not the handling of a results, reset_test,
\* logout or start_test request of the user (views, submits, moves, the
\* passing of time, a change of the catalog) leaves both as they are.
C31_ListAndStartTimeFixed ==
    [][\A u \in Users :
          /\ (StartTest(u) /\ resp'[u] = RedirectToQuestion(0, ""))
             => /\ store'[u]["test_questions_ids_ordered"] = ORDERED_QUESTION_IDS
                /\ store'[u]["start_time"] = now
          /\ (TestUnderWay(store[u]) /\ ~AttemptEndingStep(u))
             => /\ TestUnderWay(store'[u])
                /\ store'[u]["test_questions_ids_ordered"]
                     = store[u]["test_questions_ids_ordered"]
                /\ store'[u]["start_time"] = store[u]["start_time"]]_vars

\* A submit with an answer and a review mark was handled and moved on, on an
\* attempt started at an earlier time on another catalog ordering.
C31_Witness ==
    \E u \in Users :
        /\ QuestionHandled(u)
        /\ req[u].method = "POST"
        /\ DOMAIN req[u].form = {"answer", "mark_review", "action"}
        /\ resp[u].kind = "redirect"
        /\ resp[u].endpoint = "test_question_page"
        /\ TestUnderWay(store[u])
        /\ store[u]["answers"] # before[u]["answers"]
        /\ store[u]["test_questions_ids_ordered"] # ORDERED_QUESTION_IDS
        /\ store[u]["start_time"] # now

\* Tab c has sent a request, and its response has been taken.
Completed(c) == req[c] = NoRequest /\ resp[c] # NoResponse

====
